---- MODULE Spec2Model ----
(***************************************************************************)
(* Model of serve_streamlit.py: the module-level deployment descriptor     *)
(* (path check, image, app, registration of run) and the entry point run() *)
(* executing in container instances, together with the process that        *)
(* subprocess.Popen(cmd, shell=True) starts.                               *)
(*                                                                         *)
(* Python strings that the program quotes, formats or hands to the shell   *)
(* are sequences of one-character strings, so that shlex.quote, the        *)
(* f-string and the shell's word splitting are computed character by       *)
(* character.                                                              *)
(***************************************************************************)
EXTENDS Integers, Sequences, FiniteSets, TLC

(* ---------------------------- bounds ---------------------------------- *)
\* number of container instances the platform may start
NumContainers == 2
\* longest remote path drawn when the path is left open
MaxLen == 2

Containers == 1..NumContainers

(* ------------------------ program constants --------------------------- *)
\* line 7: Path(__file__).parent / "app.py"
streamlit_script_local_path == <<"__file__.parent", "app.py">>
\* line 8
RemotePathLiteral == <<"/","r","o","o","t","/","a","p","p",".","p","y">>
\* line 34: @modal.web_server(8000)
WebServerPort == 8000
\* line 33: @modal.concurrent(max_inputs=100)
MaxInputs == 100
\* line 29
AppName == "streamlit-dashboard"
\* lines 11-13
MissingMessage == "app.py not found! Place the script with your streamlit app in the same directory."
\* line 37, the text of the f-string before and after {target}
CmdPrefix == <<"s","t","r","e","a","m","l","i","t"," ","r","u","n"," ">>
CmdSuffix ==
  <<" ","-","-","s","e","r","v","e","r",".","p","o","r","t"," ","8","0","0","0"," ","-","-","s","e","r","v","e","r",".","e","n","a","b","l","e","C","O","R","S","=","f","a","l","s","e"," ","-","-","s","e","r","v","e","r",".","e","n","a","b","l","e","X","s","r","f","P","r","o","t","e","c","t","i","o","n","=","f","a","l","s","e"," ","-","-","s","e","r","v","e","r",".","h","e","a","d","l","e","s","s","=","t","r","u","e">>

(* ------------------------- shlex.quote -------------------------------- *)
\* the characters the pattern [^\w@%+=:,./-] (re.ASCII) does not match
SafeChars ==
    { "a", "b", "c", "d", "e", "f", "g", "h", "i", "j", "k", "l", "m", "n", "o", "p",
      "q", "r", "s", "t", "u", "v", "w", "x", "y", "z", "A", "B", "C", "D", "E", "F",
      "G", "H", "I", "J", "K", "L", "M", "N", "O", "P", "Q", "R", "S", "T", "U", "V",
      "W", "X", "Y", "Z", "0", "1", "2", "3", "4", "5", "6", "7", "8", "9", "_", "@",
      "%", "+", "=", ":", ",", ".", "/", "-" }

\* characters a remote path is drawn from when it is left open: a safe
\* character, a space, both quote characters, a command separator and the
\* parameter-expansion character
PathChars == {"a", " ", "'", "\"", ";", "$"}

RECURSIVE SeqsUpTo(_, _)
SeqsUpTo(S, n) ==
  IF n = 0 THEN {<<>>}
  ELSE LET shorter == SeqsUpTo(S, n - 1)
       IN shorter \cup {Append(s, ch) : s \in {x \in shorter : Len(x) = n - 1}, ch \in S}

Paths == SeqsUpTo(PathChars, MaxLen)

\* s.replace("'", "'\"'\"'")
RECURSIVE ReplaceQuote(_)
ReplaceQuote(s) ==
  IF s = <<>> THEN <<>>
  ELSE (IF Head(s) = "'" THEN <<"'", "\"", "'", "\"", "'">> ELSE <<Head(s)>>)
       \o ReplaceQuote(Tail(s))

\* quote without the replacement of embedded single quotes
quote_NoReplace(s) ==
  IF s = <<>> THEN <<"'", "'">>
  ELSE IF \A i \in 1..Len(s) : s[i] \in SafeChars THEN s
  ELSE <<"'">> \o s \o <<"'">>

quote(s) ==
  IF s = <<>> THEN <<"'", "'">>
  ELSE IF \A i \in 1..Len(s) : s[i] \in SafeChars THEN s
  ELSE <<"'">> \o ReplaceQuote(s) \o <<"'">>

\* the f-string with the target between double quotes
FormatCmd_DoubleQuoted(tgt) == CmdPrefix \o <<"\"">> \o tgt \o <<"\"">> \o CmdSuffix

\* the f-string without the headless flag
FormatCmd_NoHeadless(tgt) ==
  CmdPrefix \o tgt \o SubSeq(CmdSuffix, 1, Len(CmdSuffix) - 23)

\* the f-string with the dashboard tool's default port
FormatCmd_DefaultPort(tgt) ==
  CmdPrefix \o tgt \o [i \in 1..Len(CmdSuffix) |->
                          IF i = 17 THEN "5" ELSE IF i = 19 THEN "1" ELSE CmdSuffix[i]]

\* line 37: the f-string
FormatCmd(tgt) == CmdPrefix \o tgt \o CmdSuffix

(* ------------------ /bin/sh -c: splitting into words ------------------- *)
\* characters that separate commands when unquoted
ControlOps == {";", "&", "|"}
\* characters that start an expansion or a redirection when unquoted
MetaChars == {"$", "*", "?", "<", ">", "(", ")", "#"}
\* characters that keep their special meaning between double quotes
DqMetaChars == {"$"}

ShInit ==
  [mode |-> "n", esc |-> FALSE, cur |-> <<>>, inWord |-> FALSE,
   words |-> <<>>, cmds |-> <<>>, meta |-> FALSE, err |-> FALSE]

Put(st, ch) == [st EXCEPT !.cur = Append(@, ch), !.inWord = TRUE, !.esc = FALSE]

EndWord(st) ==
  IF st.inWord
  THEN [st EXCEPT !.words = Append(@, st.cur), !.cur = <<>>, !.inWord = FALSE]
  ELSE st

EndCmd(st) ==
  IF st.words = <<>> THEN [st EXCEPT !.err = TRUE]
  ELSE [st EXCEPT !.cmds = Append(@, st.words), !.words = <<>>]

ShStep(st, ch) ==
  CASE st.mode = "s" ->
         IF ch = "'" THEN [st EXCEPT !.mode = "n"] ELSE Put(st, ch)
    [] st.mode = "d" ->
         IF st.esc
         THEN IF ch \in {"$", "\"", "\\"} THEN Put(st, ch)
              ELSE Put(Put(st, "\\"), ch)
         ELSE IF ch = "\\" THEN [st EXCEPT !.esc = TRUE]
         ELSE IF ch = "\"" THEN [st EXCEPT !.mode = "n"]
         ELSE IF ch \in DqMetaChars THEN [Put(st, ch) EXCEPT !.meta = TRUE]
         ELSE Put(st, ch)
    [] OTHER ->
         IF st.esc THEN Put(st, ch)
         ELSE IF ch = "\\" THEN [st EXCEPT !.esc = TRUE]
         ELSE IF ch = " " THEN EndWord(st)
         ELSE IF ch \in ControlOps THEN EndCmd(EndWord(st))
         ELSE IF ch = "'" THEN [st EXCEPT !.mode = "s", !.inWord = TRUE]
         ELSE IF ch = "\"" THEN [st EXCEPT !.mode = "d", !.inWord = TRUE]
         ELSE IF ch \in MetaChars THEN [Put(st, ch) EXCEPT !.meta = TRUE]
         ELSE Put(st, ch)

\* the scanner run over s[lo..hi] from state st, left to right, stopping at
\* the first syntax error (split in halves to keep the evaluation shallow)
RECURSIVE ShScan(_, _, _, _)
ShScan(s, lo, hi, st) ==
  IF lo > hi THEN st
  ELSE IF lo = hi THEN ShStep(st, s[lo])
  ELSE LET mid  == (lo + hi) \div 2
           left == ShScan(s, lo, mid, st)
       IN IF left.err THEN left ELSE ShScan(s, mid + 1, hi, left)

\* what the shell makes of a command string: ok is FALSE on a syntax error
\* (unterminated quote, dangling backslash, empty command before an
\* operator), cmds are the commands with their words, meta tells whether an
\* expansion or redirection character was met outside single quotes
ShParse(s) ==
  LET st == ShScan(s, 1, Len(s), ShInit)
      w  == EndWord(st)
      fin == IF w.words = <<>> THEN w ELSE EndCmd(w)
  IN [ok   |-> st.mode = "n" /\ ~st.esc /\ ~fin.err,
      cmds |-> fin.cmds,
      meta |-> st.meta]

DigitVal(d) ==
  CASE d = "0" -> 0 [] d = "1" -> 1 [] d = "2" -> 2 [] d = "3" -> 3 [] d = "4" -> 4
    [] d = "5" -> 5 [] d = "6" -> 6 [] d = "7" -> 7 [] d = "8" -> 8 [] d = "9" -> 9
    [] OTHER -> -1

RECURSIVE ParseInt(_)
ParseInt(s) ==
  IF s = <<>> THEN 0 ELSE 10 * ParseInt(SubSeq(s, 1, Len(s) - 1)) + DigitVal(s[Len(s)])

IsNumber(s) == s # <<>> /\ \A i \in 1..Len(s) : DigitVal(s[i]) >= 0

\* the port the dashboard tool is told to listen on: the word that follows
\* --server.port among the arguments, 0 when there is none
PortOption == <<"-","-","s","e","r","v","e","r",".","p","o","r","t">>
ToolName == <<"s","t","r","e","a","m","l","i","t">>

ListenPort(words) ==
  LET idx == {i \in 1..(Len(words) - 1) : words[i] = PortOption /\ IsNumber(words[i + 1])}
  IN IF idx = {} THEN 0
     ELSE ParseInt(words[(CHOOSE i \in idx : \A j \in idx : j <= i) + 1])

\* the parsed command line starts the dashboard tool: no syntax error, and
\* the first word of the first command is the tool
Launches(p) == p.ok /\ Len(p.cmds) >= 1 /\ p.cmds[1][1] = ToolName

(* ------------------------------ state --------------------------------- *)
VARIABLES
  fileExists,   \* streamlit_script_local_path.exists() in the loading environment
  modPc,        \* position of the module-level code
  globals,      \* the module's namespace: names bound so far
  raised,       \* message of the exception that ended the module load, or ""
  pc,           \* per container: position of run()
  target,       \* per container: run's local target
  cmd,          \* per container: run's local cmd
  attempts,     \* per container: number of subprocess.Popen calls made
  procStatus,   \* per container: state of the process Popen started
  procCmd,      \* per container: command line handed to /bin/sh -c
  procParse,    \* per container: what the shell made of that command line
  listening     \* per container: ports bound in its network namespace

vars == <<fileExists, modPc, globals, raised, pc, target, cmd, attempts,
          procStatus, procCmd, procParse, listening>>

modVars == <<fileExists, modPc, globals, raised>>
runVars == <<pc, target, cmd, attempts>>
procVars == <<procStatus, procCmd, procParse, listening>>

(* ----------------------- the image builder chain ---------------------- *)
\* line 17
debian_slim(python_version) ==
  [base |-> "debian_slim", python_version |-> python_version,
   packages |-> <<>>, files |-> <<>>]

\* lines 18-22
uv_pip_install(img, pkgs) == [img EXCEPT !.packages = @ \o pkgs]

\* add_local_file with its two path arguments exchanged
add_local_file_Swapped(img, local, remote) ==
  [img EXCEPT !.files = Append(@, [local |-> remote, remote |-> local])]

\* lines 23-26
add_local_file(img, local, remote) ==
  [img EXCEPT !.files = Append(@, [local |-> local, remote |-> remote])]

Packages == <<"streamlit~=1.35.0", "numpy~=1.26.4", "pandas~=2.2.2">>

Bound(name) == name \in DOMAIN globals

(* ------------------------------ Init ---------------------------------- *)
\* everything but the remote path: lines 7-8 have run, nothing else has
InitRest ==
  /\ fileExists \in BOOLEAN
  /\ modPc = "line10"
  /\ raised = ""
  /\ pc = [c \in Containers |-> "idle"]
  /\ target = [c \in Containers |-> <<>>]
  /\ cmd = [c \in Containers |-> <<>>]
  /\ attempts = [c \in Containers |-> 0]
  /\ procStatus = [c \in Containers |-> "none"]
  /\ procCmd = [c \in Containers |-> <<>>]
  /\ procParse = [c \in Containers |-> ShParse(<<>>)]
  /\ listening = [c \in Containers |-> {}]

Init ==
  /\ globals = [streamlit_script_local_path |-> streamlit_script_local_path,
                streamlit_script_remote_path |-> RemotePathLiteral]
  /\ InitRest

\* the same program with line 8 assigning any path of the bounded set
InitAnyPath ==
  /\ \E p \in Paths :
       globals = [streamlit_script_local_path |-> streamlit_script_local_path,
                  streamlit_script_remote_path |-> p]
  /\ InitRest

(* --------------------------- module load ------------------------------ *)
\* the existence check with its condition inverted
CheckExists_Inverted ==
  /\ modPc = "line10"
  /\ IF fileExists
     THEN /\ modPc' = "error"
          /\ raised' = MissingMessage
     ELSE /\ modPc' = "line16"
          /\ raised' = raised
  /\ UNCHANGED <<fileExists, globals, runVars, procVars>>

\* lines 10-13
CheckExists ==
  /\ modPc = "line10"
  /\ IF ~fileExists
     THEN /\ modPc' = "error"
          /\ raised' = MissingMessage
     ELSE /\ modPc' = "line16"
          /\ raised' = raised
  /\ UNCHANGED <<fileExists, globals, runVars, procVars>>

\* lines 16-27
BuildImage ==
  /\ modPc = "line16"
  /\ globals' = globals @@
       [image |-> add_local_file(
                    uv_pip_install(debian_slim("3.11"), Packages),
                    globals.streamlit_script_local_path,
                    globals.streamlit_script_remote_path)]
  /\ modPc' = "line29"
  /\ UNCHANGED <<fileExists, raised, runVars, procVars>>

\* line 29
CreateApp ==
  /\ modPc = "line29"
  /\ globals' = globals @@
       [app |-> [name |-> AppName, image |-> globals.image, functions |-> <<>>]]
  /\ modPc' = "line32"
  /\ UNCHANGED <<fileExists, raised, runVars, procVars>>

\* lines 32-35: the decorators register run with the app
DefineRun ==
  /\ modPc = "line32"
  /\ globals' = [globals EXCEPT !.app.functions =
                   Append(@, [name |-> "run", web_server |-> WebServerPort,
                              max_inputs |-> MaxInputs])]
                @@ [run |-> "function"]
  /\ modPc' = "loaded"
  /\ UNCHANGED <<fileExists, raised, runVars, procVars>>

(* ------------------------- run() in container c ----------------------- *)
\* the platform calls run once when it starts container c
run_invoke(c) ==
  /\ modPc = "loaded"
  /\ pc[c] = "idle"
  /\ pc' = [pc EXCEPT ![c] = "line36"]
  /\ UNCHANGED <<modVars, target, cmd, attempts, procVars>>

\* line 36
run_quote(c) ==
  /\ pc[c] = "line36"
  /\ target' = [target EXCEPT ![c] = quote(globals.streamlit_script_remote_path)]
  /\ pc' = [pc EXCEPT ![c] = "line37"]
  /\ UNCHANGED <<modVars, cmd, attempts, procVars>>

\* line 37 writing cmd where every container instance reads it
run_format_Shared(c) ==
  /\ pc[c] = "line37"
  /\ cmd' = [d \in Containers |-> FormatCmd(target[c])]
  /\ pc' = [pc EXCEPT ![c] = "line38"]
  /\ UNCHANGED <<modVars, target, attempts, procVars>>

\* line 37
run_format(c) ==
  /\ pc[c] = "line37"
  /\ cmd' = [cmd EXCEPT ![c] = FormatCmd(target[c])]
  /\ pc' = [pc EXCEPT ![c] = "line38"]
  /\ UNCHANGED <<modVars, target, attempts, procVars>>

\* line 38 executed twice before the body ends
run_Popen_Twice(c) ==
  /\ pc[c] = "line38"
  /\ attempts' = [attempts EXCEPT ![c] = @ + 1]
  /\ procStatus' = [procStatus EXCEPT ![c] = "starting"]
  /\ procCmd' = [procCmd EXCEPT ![c] = cmd[c]]
  /\ procParse' = [procParse EXCEPT ![c] = ShParse(cmd[c])]
  /\ pc' = [pc EXCEPT ![c] = IF attempts[c] >= 1 THEN "end" ELSE "line38"]
  /\ UNCHANGED <<modVars, target, cmd, listening>>

\* line 38: Popen forks /bin/sh -c cmd, which splits cmd into words, and comes
\* back with the child running
run_Popen(c) ==
  /\ pc[c] = "line38"
  /\ attempts' = [attempts EXCEPT ![c] = @ + 1]
  /\ procStatus' = [procStatus EXCEPT ![c] = "starting"]
  /\ procCmd' = [procCmd EXCEPT ![c] = cmd[c]]
  /\ procParse' = [procParse EXCEPT ![c] = ShParse(cmd[c])]
  /\ pc' = [pc EXCEPT ![c] = "end"]
  /\ UNCHANGED <<modVars, target, cmd, listening>>

\* run waiting for the child, as subprocess.run or Popen.wait would
run_return_Wait(c) ==
  /\ pc[c] = "end"
  /\ procStatus[c] \in {"failed", "exited"}
  /\ pc' = [pc EXCEPT ![c] = "returned"]
  /\ UNCHANGED <<modVars, target, cmd, attempts, procVars>>

\* run inspecting the child and launching again when it failed
run_return_Retry(c) ==
  /\ pc[c] = "end"
  /\ pc' = [pc EXCEPT ![c] = IF procStatus[c] = "failed" THEN "line38" ELSE "returned"]
  /\ UNCHANGED <<modVars, target, cmd, attempts, procVars>>

\* the end of the body: the Popen object is dropped and run returns None
run_return(c) ==
  /\ pc[c] = "end"
  /\ pc' = [pc EXCEPT ![c] = "returned"]
  /\ UNCHANGED <<modVars, target, cmd, attempts, procVars>>

(* --------------- the process started by Popen in container c ---------- *)
\* line 34: the port is bound inside the container's own network namespace
PortFree(c, port) == port \notin listening[c]

\* the shell finds the tool, which binds the port of its --server.port option
proc_serve(c) ==
  /\ procStatus[c] = "starting"
  /\ Launches(procParse[c])
  /\ LET port == ListenPort(procParse[c].cmds[1])
     IN /\ PortFree(c, port)
        /\ listening' = [listening EXCEPT ![c] = @ \cup {port}]
  /\ procStatus' = [procStatus EXCEPT ![c] = "serving"]
  /\ UNCHANGED <<modVars, runVars, procCmd, procParse>>

\* the shell or the tool fails: syntax error, tool not found, port not bound
proc_fail(c) ==
  /\ procStatus[c] = "starting"
  /\ procStatus' = [procStatus EXCEPT ![c] = "failed"]
  /\ UNCHANGED <<modVars, runVars, procCmd, procParse, listening>>

\* the serving process ends (crash, or the platform tears the container down)
proc_exit(c) ==
  /\ procStatus[c] = "serving"
  /\ procStatus' = [procStatus EXCEPT ![c] = "exited"]
  /\ listening' = [listening EXCEPT ![c] = {}]
  /\ UNCHANGED <<modVars, runVars, procCmd, procParse>>

Next ==
  \/ CheckExists
  \/ BuildImage
  \/ CreateApp
  \/ DefineRun
  \/ \E c \in Containers : run_invoke(c)
  \/ \E c \in Containers : run_quote(c)
  \/ \E c \in Containers : run_format(c)
  \/ \E c \in Containers : run_Popen(c)
  \/ \E c \in Containers : run_return(c)
  \/ \E c \in Containers : proc_serve(c)
  \/ \E c \in Containers : proc_fail(c)
  \/ \E c \in Containers : proc_exit(c)

Spec == Init /\ [][Next]_vars

SpecAnyPath == InitAnyPath /\ [][Next]_vars

(* ============================ properties ============================== *)
Started(c) == procStatus[c] # "none"
CmdBuilt(c) == pc[c] \in {"line38", "end", "returned"}
RemotePath == globals.streamlit_script_remote_path

Contains(s, sub) ==
  \E i \in 1..(Len(s) - Len(sub) + 1) : SubSeq(s, i, i + Len(sub) - 1) = sub

HasChar(s, ch) == \E i \in 1..Len(s) : s[i] = ch

\* C1: when app.py is missing the module load ends in the error raised at
\* line 11, and neither image, nor app, nor run is ever bound: the load is
\* either still before the check or stopped by the RuntimeError.
C1_MissingFileFailsFirst ==
  ~fileExists =>
    /\ modPc \in {"line10", "error"}
    /\ ~Bound("image") /\ ~Bound("app") /\ ~Bound("run")
    /\ (modPc = "error" => raised = MissingMessage)
    /\ \A c \in Containers : pc[c] = "idle" /\ ~Started(c)

C1_Witness == ~fileExists /\ modPc = "error" /\ raised = MissingMessage

\* C2: when app.py exists the module load never fails, the image built at
\* lines 16-27 embeds exactly one file, the local app.py sent to
\* /root/app.py, and that remote path is the script argument of the command
\* every started process executes.
C2_ImageMapsLocalToRemote ==
  fileExists =>
    /\ modPc # "error" /\ raised = ""
    /\ (modPc \in {"line29", "line32", "loaded"} =>
          /\ Bound("image")
          /\ globals.image.files =
               <<[local |-> streamlit_script_local_path, remote |-> RemotePathLiteral]>>)
    /\ \A c \in Containers :
         Started(c) =>
           LET p == procParse[c]
           IN p.ok /\ Len(p.cmds) = 1 /\ p.cmds[1][3] = globals.image.files[1].remote

C2_Witness ==
  /\ fileExists /\ modPc = "loaded"
  /\ Len(globals.image.files) = 1
  /\ \E c \in Containers : procStatus[c] = "serving"

\* C3: run never waits for the process it started: whenever run has reached
\* the end of its body it can return, whatever the state of the process.
C3_RunDoesNotWait ==
  \A c \in Containers : pc[c] = "end" => ENABLED run_return(c)

C3_Witness ==
  \E c \in Containers : pc[c] = "returned" /\ procStatus[c] \in {"starting", "serving"}

\* C4: a container never sees more than one launch, and once run has
\* returned exactly one process has been started in it, told to listen on
\* port 8000 and, when serving, bound to port 8000 only.
C4_ExactlyOneProcess ==
  \A c \in Containers :
    /\ attempts[c] <= 1
    /\ (attempts[c] = 1 <=> Started(c))
    /\ (pc[c] = "returned" => attempts[c] = 1)
    /\ (Started(c) => ListenPort(procParse[c].cmds[1]) = 8000)
    /\ (procStatus[c] = "serving" => listening[c] = {8000})

C4_Witness ==
  \E c \in Containers : pc[c] = "returned" /\ attempts[c] = 1 /\ procStatus[c] = "serving"

\* C5: whatever the remote path, the command built at line 37 contains the
\* four flag texts.
Flag_Port == <<"-","-","s","e","r","v","e","r",".","p","o","r","t"," ","8","0","0","0">>
Flag_CORS == <<"-","-","s","e","r","v","e","r",".","e","n","a","b","l","e","C","O","R","S","=","f","a","l","s","e">>
Flag_Xsrf ==
  <<"-","-","s","e","r","v","e","r",".","e","n","a","b","l","e","X","s","r","f","P","r","o","t","e","c","t","i","o","n","=","f","a","l","s","e">>
Flag_Headless == <<"-","-","s","e","r","v","e","r",".","h","e","a","d","l","e","s","s","=","t","r","u","e">>

C5_CommandHasAllFlags ==
  \A c \in Containers :
    CmdBuilt(c) =>
      /\ Contains(cmd[c], Flag_Port)
      /\ Contains(cmd[c], Flag_CORS)
      /\ Contains(cmd[c], Flag_Xsrf)
      /\ Contains(cmd[c], Flag_Headless)

C5_Witness ==
  \E c \in Containers : CmdBuilt(c) /\ HasChar(RemotePath, " ") /\ HasChar(RemotePath, "\"")

\* C6: whatever the remote path, the shell that Popen starts splits the
\* command built at line 37 into one command of eight words without a
\* syntax error or an expansion, and its third word, the script argument,
\* is the path itself.
C6_PathIsOneShellWord ==
  \A c \in Containers :
    Started(c) =>
      LET p == procParse[c]
      IN /\ procCmd[c] = FormatCmd(target[c])
         /\ p.ok /\ ~p.meta
         /\ Len(p.cmds) = 1
         /\ Len(p.cmds[1]) = 8
         /\ p.cmds[1][3] = RemotePath

C6_Witness ==
  \E c \in Containers :
    /\ Started(c)
    /\ HasChar(RemotePath, "'")
    /\ HasChar(RemotePath, " ") \/ HasChar(RemotePath, ";")

\* C7: with /root/app.py as the remote path, the command line every started
\* process executes is the documented text, character for character.
ExpectedCmd ==
  <<"s","t","r","e","a","m","l","i","t"," ","r","u","n"," ","/","r","o","o","t","/","a","p","p",".","p","y"," ","-","-","s","e","r","v","e","r",".","p","o","r","t"," ","8","0","0","0"," ","-","-","s","e","r","v","e","r",".","e","n","a","b","l","e","C","O","R","S","=","f","a","l","s","e"," ","-","-","s","e","r","v","e","r",".","e","n","a","b","l","e","X","s","r","f","P","r","o","t","e","c","t","i","o","n","=","f","a","l","s","e"," ","-","-","s","e","r","v","e","r",".","h","e","a","d","l","e","s","s","=","t","r","u","e">>

C7_ExactCommand ==
  \A c \in Containers :
    /\ (CmdBuilt(c) => cmd[c] = ExpectedCmd)
    /\ (Started(c) => procCmd[c] = ExpectedCmd)

C7_Witness ==
  /\ fileExists /\ Bound("image")
  /\ \E c \in Containers : procStatus[c] = "serving" /\ procCmd[c] = ExpectedCmd

\* C8: a failed launch is not handled: no step launches a second time, and
\* once the process of a container has failed, run in that container does
\* nothing but return: it records no error and makes no further attempt.
C8_FailureUnhandled ==
  [][\A c \in Containers :
       /\ attempts'[c] <= 1
       /\ (procStatus[c] = "failed" =>
             /\ attempts'[c] = attempts[c]
             /\ procStatus'[c] = "failed"
             /\ raised' = raised
             /\ (pc'[c] # pc[c] => pc[c] = "end" /\ pc'[c] = "returned"))]_vars

C8_Witness ==
  \E c \in Containers : procStatus[c] = "failed" /\ pc[c] = "returned" /\ attempts[c] = 1

\* C9: containers are independent: all started processes run the same
\* command, port 8000 is free for a starting process whatever the other
\* containers have bound, a step changes the state of at most one container, and no
\* step of run or of a process changes the module's globals.
ContainerState(c) ==
  <<pc[c], target[c], cmd[c], attempts[c], procStatus[c], procCmd[c], procParse[c],
    listening[c]>>

C9_Independent ==
  /\ [](\A c, d \in Containers :
          /\ (Started(c) /\ Started(d) => procCmd[c] = procCmd[d])
          /\ (procStatus[c] = "starting" => PortFree(c, 8000)))
  /\ [][/\ \A c, d \in Containers :
             c # d => \/ ContainerState(c)' = ContainerState(c)
                      \/ ContainerState(d)' = ContainerState(d)
        /\ (modPc = "loaded" => globals' = globals)]_vars

C9_Witness ==
  \E c, d \in Containers :
    c # d /\ procStatus[c] = "serving" /\ procStatus[d] = "serving"
          /\ listening[c] = {8000} /\ listening[d] = {8000}

\* C10: once the module is loaded the app is named streamlit-dashboard and
\* holds one function, run, declared as a web server on port 8000 with at
\* most 100 concurrent inputs; the port every started process is told to
\* listen on is the declared one; and nothing changes the registration.
C10_RegistrationMatchesLaunch ==
  /\ [](modPc = "loaded" =>
          /\ globals.app.name = "streamlit-dashboard"
          /\ Len(globals.app.functions) = 1
          /\ globals.app.functions[1] =
               [name |-> "run", web_server |-> 8000, max_inputs |-> 100]
          /\ \A c \in Containers :
               /\ (Started(c) =>
                     ListenPort(procParse[c].cmds[1]) =
                       globals.app.functions[1].web_server)
               /\ (procStatus[c] = "serving" =>
                     listening[c] = {globals.app.functions[1].web_server}))
  /\ [][modPc = "loaded" => modPc' = "loaded" /\ globals' = globals]_vars

C10_Witness ==
  /\ modPc = "loaded"
  /\ \E c \in Containers : procStatus[c] = "serving" /\ listening[c] = {8000}
====
